---- MODULE Spec2Model ----
(***************************************************************************)
(* Rotation sequences and direction cosine matrices (rotationSequence.ipynb)*)
(*                                                                         *)
(* The notebook defines five functions: the numeric builder                *)
(* create_rotation_matrix, the numeric composer euler_to_dcm, the symbolic *)
(* composer get_symbolic_dcm with its nested builder                       *)
(* create_symbolic_rotation, and display_symbolic_dcm, which transposes    *)
(* the symbolic DCM to obtain the "inverse DCM".  All are stateless, so a  *)
(* state of the model is one call together with its outcome; calls are     *)
(* independent, so each starts from the idle state.                        *)
(*                                                                         *)
(* Angles are counted in quarter turns (t stands for t * pi/2 radians), so *)
(* that cosine and sine are the integers 1, 0, -1 and matrix arithmetic is *)
(* exact.  A symbolic scalar is modelled by its denotation: a symbol name  *)
(* evaluated under an assignment env of quarter turns to the three symbols.*)
(***************************************************************************)
EXTENDS Integers, Sequences, FiniteSets, TLC

\* Longest axis / angle list passed to a composer.
MaxLen == 3

\* Largest axis value tried as input; 0 and 4 are invalid, 1..3 valid.
MaxAxis == 4

AxisInputs == 0..MaxAxis

\* Largest angle tried as input, in quarter turns.
MaxQuarter == 3

QuarterTurns == 0..MaxQuarter

\* sp.symbols('\\phi \\theta \\psi')
Symbols == {"phi", "theta", "psi"}

Envs == [Symbols -> QuarterTurns]

SeqsUpTo(S) == UNION {[1..n -> S] : n \in 0..MaxLen}

Min(a, b) == IF a < b THEN a ELSE b

\* Python's None.
None == <<>>

----------------------------------------------------------------------------
\* Outcomes of a call: a returned value or a raised exception.

NoExc == [type |-> "", msg |-> ""]

\* raise ValueError("Axis must be 1, 2, or 3")
InvalidAxis == [type |-> "ValueError", msg |-> "Axis must be 1, 2, or 3"]

\* raise ValueError("Number of axes must match number of angles")
LengthMismatch ==
    [type |-> "ValueError", msg |-> "Number of axes must match number of angles"]

\* angle_map[axis] on a missing key
KeyError == [type |-> "KeyError", msg |-> "axis"]

\* sympy Matrix * None
TypeError == [type |-> "TypeError", msg |-> "unsupported operand"]

\* builds counts the elementary matrices built before the call ended.
Return(v, n) == [kind |-> "return", value |-> v, exc |-> NoExc, builds |-> n]

Raise(e, n) == [kind |-> "raise", value |-> None, exc |-> e, builds |-> n]

----------------------------------------------------------------------------
\* Trigonometry and 3x3 matrices.

\* np.cos / sp.cos at t quarter turns
CosQ(t) == <<1, 0, -1, 0>>[(t % 4) + 1]

\* np.sin / sp.sin at t quarter turns
SinQ(t) == <<0, 1, 0, -1>>[(t % 4) + 1]

\* np.eye(3) / sp.eye(3)
Eye3 == <<<<1, 0, 0>>, <<0, 1, 0>>, <<0, 0, 1>>>>

MatMul(A, B) ==
    [i \in 1..3 |-> [j \in 1..3 |->
        A[i][1] * B[1][j] + A[i][2] * B[2][j] + A[i][3] * B[3][j]]]

\* dcm.transpose()
Transpose(A) == [i \in 1..3 |-> [j \in 1..3 |-> A[j][i]]]

----------------------------------------------------------------------------
\* Numeric pipeline.

SignSlipRotationMatrix(axis, angle) ==
    LET c == CosQ(angle)
        s == SinQ(angle)
    IN  IF axis = 1 THEN Return(<<<<1, 0, 0>>, <<0, c, s>>, <<0, s, c>>>>, 1)
        ELSE IF axis = 2 THEN Return(<<<<c, 0, s>>, <<0, 1, 0>>, <<-s, 0, c>>>>, 1)
        ELSE IF axis = 3 THEN Return(<<<<c, -s, 0>>, <<s, c, 0>>, <<0, 0, 1>>>>, 1)
        ELSE Raise(InvalidAxis, 0)

SwappedTrigRotationMatrix(axis, angle) ==
    LET c == SinQ(angle)
        s == CosQ(angle)
    IN  IF axis = 1 THEN Return(<<<<1, 0, 0>>, <<0, c, -s>>, <<0, s, c>>>>, 1)
        ELSE IF axis = 2 THEN Return(<<<<c, 0, s>>, <<0, 1, 0>>, <<-s, 0, c>>>>, 1)
        ELSE IF axis = 3 THEN Return(<<<<c, -s, 0>>, <<s, c, 0>>, <<0, 0, 1>>>>, 1)
        ELSE Raise(InvalidAxis, 0)

YAsXRotationMatrix(axis, angle) ==
    LET c == CosQ(angle)
        s == SinQ(angle)
    IN  IF axis = 1 THEN Return(<<<<1, 0, 0>>, <<0, c, -s>>, <<0, s, c>>>>, 1)
        ELSE IF axis = 2 THEN Return(<<<<1, 0, 0>>, <<0, c, -s>>, <<0, s, c>>>>, 1)
        ELSE IF axis = 3 THEN Return(<<<<c, -s, 0>>, <<s, c, 0>>, <<0, 0, 1>>>>, 1)
        ELSE Raise(InvalidAxis, 0)

create_rotation_matrix(axis, angle) ==
    LET c == CosQ(angle)
        s == SinQ(angle)
    IN  IF axis = 1 THEN Return(<<<<1, 0, 0>>, <<0, c, -s>>, <<0, s, c>>>>, 1)
        ELSE IF axis = 2 THEN Return(<<<<c, 0, s>>, <<0, 1, 0>>, <<-s, 0, c>>>>, 1)
        ELSE IF axis = 3 THEN Return(<<<<c, -s, 0>>, <<s, c, 0>>, <<0, 0, 1>>>>, 1)
        ELSE Raise(InvalidAxis, 0)

LeftDot(dcm, rotation_matrix) == MatMul(rotation_matrix, dcm)

\* dcm * rotation_matrix on numpy arrays multiplies entry by entry.
ElementwiseDot(dcm, rotation_matrix) ==
    [i \in 1..3 |-> [j \in 1..3 |-> dcm[i][j] * rotation_matrix[i][j]]]

\* dcm = np.dot(dcm, rotation_matrix)
np_dot(dcm, rotation_matrix) == MatMul(dcm, rotation_matrix)

\* for axis, angle in zip(sequence, angles): the loop from its i-th pair on.
RECURSIVE euler_loop(_, _, _, _)
euler_loop(sequence, angles, i, dcm) ==
    IF i > Min(Len(sequence), Len(angles))
    THEN Return(dcm, i - 1)
    ELSE LET r == create_rotation_matrix(sequence[i], angles[i])
         IN  IF r.kind = "raise"
             THEN Raise(r.exc, i - 1)
             ELSE euler_loop(sequence, angles, i + 1, np_dot(dcm, r.value))

UncheckedEulerToDcm(sequence, angles) == euler_loop(sequence, angles, 1, Eye3)

euler_to_dcm(sequence, angles) ==
    IF Len(sequence) # Len(angles)
    THEN Raise(LengthMismatch, 0)
    ELSE euler_loop(sequence, angles, 1, Eye3)

----------------------------------------------------------------------------
\* Symbolic pipeline.

\* angle_map = {1: phi, 2: theta, 3: psi}
angle_map == <<"phi", "theta", "psi">>

\* The nested builder: no else branch, so any other axis falls off the end.
create_symbolic_rotation(axis, angle, env) ==
    LET c == CosQ(env[angle])
        s == SinQ(env[angle])
    IN  IF axis = 1 THEN Return(<<<<1, 0, 0>>, <<0, c, -s>>, <<0, s, c>>>>, 1)
        ELSE IF axis = 2 THEN Return(<<<<c, 0, s>>, <<0, 1, 0>>, <<-s, 0, c>>>>, 1)
        ELSE IF axis = 3 THEN Return(<<<<c, -s, 0>>, <<s, c, 0>>, <<0, 0, 1>>>>, 1)
        ELSE Return(None, 0)

\* dcm = dcm * rot_matrix
sym_mul(dcm, rot_matrix) == MatMul(dcm, rot_matrix)

\* for axis, angle in zip(sequence, angles): the loop from its i-th pair on.
RECURSIVE symbolic_loop(_, _, _, _, _)
symbolic_loop(sequence, angles, i, dcm, env) ==
    IF i > Min(Len(sequence), Len(angles))
    THEN Return(dcm, i - 1)
    ELSE LET r == create_symbolic_rotation(sequence[i], angles[i], env)
         IN  IF r.value = None
             THEN Raise(TypeError, i - 1)
             ELSE symbolic_loop(sequence, angles, i + 1, sym_mul(dcm, r.value), env)

get_symbolic_dcm(sequence, env) ==
    IF \E i \in 1..Len(sequence) : sequence[i] \notin DOMAIN angle_map
    THEN Raise(KeyError, 0)
    ELSE LET angles == [i \in 1..Len(sequence) |-> angle_map[sequence[i]]]
         IN  symbolic_loop(sequence, angles, 1, Eye3, env)

NoTranspose(dcm) == dcm

\* dcm_inverse = dcm.transpose()
dcm_transpose(dcm) == Transpose(dcm)

\* What display_symbolic_dcm shows: the DCM and the "Inverse DCM".
display_symbolic_dcm(sequence, env) ==
    LET r == get_symbolic_dcm(sequence, env)
    IN  IF r.kind = "raise"
        THEN [kind |-> "raise", value |-> None, exc |-> r.exc, builds |-> r.builds,
              dcm |-> None, dcm_inverse |-> None]
        ELSE [kind |-> "return", value |-> None, exc |-> NoExc, builds |-> r.builds,
              dcm |-> r.value, dcm_inverse |-> dcm_transpose(r.value)]

----------------------------------------------------------------------------
\* The state: the last call made and its outcome.

VARIABLES call, out

vars == <<call, out>>

Init ==
    /\ call = [op |-> "none"]
    /\ out = Return(None, 0)

CallCreateRotationMatrix ==
    /\ call.op = "none"
    /\ \E axis \in AxisInputs, angle \in QuarterTurns :
        /\ call' = [op |-> "create_rotation_matrix", axis |-> axis, angle |-> angle]
        /\ out' = create_rotation_matrix(axis, angle)

CallCreateSymbolicRotation ==
    /\ call.op = "none"
    /\ \E axis \in AxisInputs, angle \in Symbols, env \in Envs :
        /\ call' = [op |-> "create_symbolic_rotation", axis |-> axis,
                    angle |-> angle, env |-> env]
        /\ out' = create_symbolic_rotation(axis, angle, env)

CallEulerToDcm ==
    /\ call.op = "none"
    /\ \E sequence \in SeqsUpTo(AxisInputs), angles \in SeqsUpTo(QuarterTurns) :
        /\ call' = [op |-> "euler_to_dcm", sequence |-> sequence, angles |-> angles]
        /\ out' = euler_to_dcm(sequence, angles)

CallGetSymbolicDcm ==
    /\ call.op = "none"
    /\ \E sequence \in SeqsUpTo(AxisInputs), env \in Envs :
        /\ call' = [op |-> "get_symbolic_dcm", sequence |-> sequence, env |-> env]
        /\ out' = get_symbolic_dcm(sequence, env)

CallDisplaySymbolicDcm ==
    /\ call.op = "none"
    /\ \E sequence \in SeqsUpTo(AxisInputs), env \in Envs :
        /\ call' = [op |-> "display_symbolic_dcm", sequence |-> sequence, env |-> env]
        /\ out' = display_symbolic_dcm(sequence, env)

\* The caller takes the outcome; nothing is retained between calls.
Finish ==
    /\ call.op # "none"
    /\ call' = [op |-> "none"]
    /\ out' = Return(None, 0)

Next ==
    \/ CallCreateRotationMatrix
    \/ CallCreateSymbolicRotation
    \/ CallEulerToDcm
    \/ CallGetSymbolicDcm
    \/ CallDisplaySymbolicDcm
    \/ Finish

Spec == Init /\ [][Next]_vars

----------------------------------------------------------------------------
\* Vocabulary of the properties.

ValidAxes(sequence) == \A i \in 1..Len(sequence) : sequence[i] \in {1, 2, 3}

Reverse(q) == [i \in 1..Len(q) |-> q[Len(q) + 1 - i]]

Negated(q) == [i \in 1..Len(q) |-> 0 - q[i]]

Det(M) ==
      M[1][1] * (M[2][2] * M[3][3] - M[2][3] * M[3][2])
    - M[1][2] * (M[2][1] * M[3][3] - M[2][3] * M[3][1])
    + M[1][3] * (M[2][1] * M[3][2] - M[2][2] * M[3][1])

\* F1 * (F2 * (... * Fn)): the product of the factors, first factor leftmost.
RECURSIVE OrderedProduct(_)
OrderedProduct(factors) ==
    IF Len(factors) = 0 THEN Eye3
    ELSE MatMul(Head(factors), OrderedProduct(Tail(factors)))

NumericFactors(sequence, angles) ==
    [i \in 1..Len(sequence) |-> create_rotation_matrix(sequence[i], angles[i]).value]

SymbolicFactors(sequence, env) ==
    [i \in 1..Len(sequence) |->
        create_symbolic_rotation(sequence[i], angle_map[sequence[i]], env).value]

\* The elementary matrices as the notebook's text gives them.
Rx(c, s) == <<<<1, 0, 0>>, <<0, c, 0 - s>>, <<0, s, c>>>>

Ry(c, s) == <<<<c, 0, s>>, <<0, 1, 0>>, <<0 - s, 0, c>>>>

Rz(c, s) == <<<<c, 0 - s, 0>>, <<s, c, 0>>, <<0, 0, 1>>>>

Elementary(axis, t) ==
    IF axis = 1 THEN Rx(CosQ(t), SinQ(t))
    ELSE IF axis = 2 THEN Ry(CosQ(t), SinQ(t))
    ELSE Rz(CosQ(t), SinQ(t))

IsNumericCompose == call.op = "euler_to_dcm"

IsSymbolicCompose == call.op = "get_symbolic_dcm"

IsDisplay == call.op = "display_symbolic_dcm"

IsNumericBuild == call.op = "create_rotation_matrix"

IsSymbolicBuild == call.op = "create_symbolic_rotation"

WellFormedNumeric ==
    /\ IsNumericCompose
    /\ Len(call.sequence) = Len(call.angles)
    /\ ValidAxes(call.sequence)

----------------------------------------------------------------------------
\* C1: the transpose of a composed DCM (the "Inverse DCM" of
\* display_symbolic_dcm) is the composition of the reversed sequence with every
\* angle negated, for the numeric composer on every valid sequence and for the
\* matrix display_symbolic_dcm shows as the inverse.
C1_InverseViaTranspose ==
    /\ WellFormedNumeric =>
        /\ out.kind = "return"
        /\ Transpose(out.value) =
             euler_to_dcm(Reverse(call.sequence), Negated(Reverse(call.angles))).value
    /\ (IsDisplay /\ ValidAxes(call.sequence)) =>
        /\ out.kind = "return"
        /\ out.dcm_inverse =
             euler_to_dcm(Reverse(call.sequence),
                 [i \in 1..Len(call.sequence) |->
                     0 - call.env[angle_map[Reverse(call.sequence)[i]]]]).value

\* A displayed inverse that differs from the DCM it inverts.
C1_Witness ==
    /\ IsDisplay
    /\ call.sequence = <<3, 2, 1>>
    /\ call.env = [phi |-> 1, theta |-> 2, psi |-> 3]
    /\ out.kind = "return"
    /\ out.dcm_inverse # out.dcm

\* C2: on a valid sequence both composers return the ordered product
\* build(a1,t1) * build(a2,t2) * ... * build(an,tn), the first pair leftmost.
C2_LeftToRight ==
    /\ WellFormedNumeric =>
        /\ out.kind = "return"
        /\ out.value = OrderedProduct(NumericFactors(call.sequence, call.angles))
    /\ (IsSymbolicCompose /\ ValidAxes(call.sequence)) =>
        /\ out.kind = "return"
        /\ out.value = OrderedProduct(SymbolicFactors(call.sequence, call.env))

\* A call whose ordered product differs from the reverse-order product.
C2_Witness ==
    /\ WellFormedNumeric
    /\ Len(call.sequence) = 3
    /\ out.kind = "return"
    /\ out.value # OrderedProduct(Reverse(NumericFactors(call.sequence, call.angles)))

\* C3: for a valid axis each builder returns the elementary matrix of the
\* notebook's text, with c and s the cosine and sine of the angle; the numeric
\* and the symbolic builder give the same pattern.
C3_ElementaryMatrices ==
    /\ (IsNumericBuild /\ call.axis \in {1, 2, 3}) =>
        out = Return(Elementary(call.axis, call.angle), 1)
    /\ (IsSymbolicBuild /\ call.axis \in {1, 2, 3}) =>
        out = Return(Elementary(call.axis, call.env[call.angle]), 1)

C3_Witness ==
    /\ IsNumericBuild
    /\ call.axis = 2
    /\ call.angle = 1
    /\ out.value = <<<<0, 0, 1>>, <<0, 1, 0>>, <<-1, 0, 0>>>>

C5_LengthMismatch ==
    (IsNumericCompose /\ Len(call.sequence) # Len(call.angles)) =>
        out = Raise(LengthMismatch, 0)

\* Lists of different lengths with an invalid axis in front.
C5_Witness ==
    /\ IsNumericCompose
    /\ Len(call.sequence) = 3
    /\ Len(call.angles) = 2
    /\ call.sequence[1] \notin {1, 2, 3}
    /\ out.exc = LengthMismatch

\* C6: on a sequence holding an axis outside {1,2,3} at any position (with
\* lists of equal length) the numeric and the symbolic composer both fail with
\* InvalidAxis and return no DCM.
C6_ComposerPropagatesInvalidAxis ==
    /\ (IsNumericCompose /\ Len(call.sequence) = Len(call.angles)
            /\ ~ValidAxes(call.sequence)) =>
        /\ out.kind = "raise"
        /\ out.exc = InvalidAxis
        /\ out.value = None
    /\ (IsSymbolicCompose /\ ~ValidAxes(call.sequence)) =>
        /\ out.kind = "raise"
        /\ out.exc = InvalidAxis
        /\ out.value = None

\* C7: on every valid sequence the numeric DCM M is a proper rotation:
\* M * M^T is the identity and det(M) = 1.
C7_ProperRotation ==
    WellFormedNumeric =>
        /\ out.kind = "return"
        /\ MatMul(out.value, Transpose(out.value)) = Eye3
        /\ Det(out.value) = 1

C7_Witness ==
    /\ WellFormedNumeric
    /\ call.sequence = <<3, 2, 1>>
    /\ call.angles = <<1, 3, 2>>
    /\ out.kind = "return"
    /\ out.value # Eye3

\* C8: get_symbolic_dcm([3,1,3]) is Rz(psi) * Rx(theta) * Rz(phi) and
\* get_symbolic_dcm([3,2,1]) is Rz(psi) * Ry(theta) * Rx(phi).
C8_SymbolicAngleAssignment ==
    /\ (IsSymbolicCompose /\ call.sequence = <<3, 1, 3>>) =>
        out.value = OrderedProduct(<<Elementary(3, call.env["psi"]),
                                     Elementary(1, call.env["theta"]),
                                     Elementary(3, call.env["phi"])>>)
    /\ (IsSymbolicCompose /\ call.sequence = <<3, 2, 1>>) =>
        out.value = OrderedProduct(<<Elementary(3, call.env["psi"]),
                                     Elementary(2, call.env["theta"]),
                                     Elementary(1, call.env["phi"])>>)

\* C9: on valid axes of any length, the empty list included, with every angle
\* 0, euler_to_dcm returns the identity matrix exactly and raises nothing.
C9_IdentityOnZeroAngles ==
    (WellFormedNumeric /\ \A i \in 1..Len(call.angles) : call.angles[i] = 0) =>
        /\ out.kind = "return"
        /\ out.exc = NoExc
        /\ out.value = Eye3

C9_Witness ==
    /\ WellFormedNumeric
    /\ call.sequence = <<3, 1, 2>>
    /\ call.angles = <<0, 0, 0>>
    /\ out.value = Eye3

\* C10: for the two different valid axes of a call there are nonzero angles
\* t1, t2 at which composing in the order given and in the swapped order give
\* different matrices.
C10_NonCommutativity ==
    (WellFormedNumeric /\ Len(call.sequence) = 2
            /\ call.sequence[1] # call.sequence[2]) =>
        \E t1, t2 \in QuarterTurns \ {0} :
            euler_to_dcm(call.sequence, <<t1, t2>>).value #
                euler_to_dcm(Reverse(call.sequence), <<t2, t1>>).value

\* A call on two different axes whose result differs from the swapped call's.
C10_Witness ==
    /\ WellFormedNumeric
    /\ call.sequence = <<1, 2>>
    /\ call.angles = <<1, 1>>
    /\ out.value # euler_to_dcm(<<2, 1>>, <<1, 1>>).value

====
